---- MODULE Spec2Model ----
(***************************************************************************)
(* OAuth2 authorization-code flows of backend/integrations/hubspot.py and  *)
(* backend/integrations/notion.py: authorize, callback, credential         *)
(* retrieval (with refresh for HubSpot) and the paginated HubSpot item     *)
(* fetch.  Strings are sequences of one-character strings, so that key     *)
(* construction, state encoding and JSON are computed as the code computes *)
(* them.  Every handler is a process; one action is the code between two   *)
(* awaits.                                                                 *)
(***************************************************************************)
EXTENDS Integers, Sequences, FiniteSets, TLC

VARIABLES
    kv,        \* the Redis key-value store: key -> [val, ttl, owner]
    procs,     \* one record per in-flight request (handler locals + position)
    orphans,   \* delete_key_redis tasks left running by a failed asyncio.gather
    issued,    \* authorization URLs handed out by authorize_notion
    consumed,  \* history: state parameters a callback has accepted
    nonce,     \* number of secrets.token_urlsafe values drawn so far
    ops,       \* number of requests started so far
    items      \* the get_items_hubspot call: locals, request log, served pages

vars == <<kv, procs, orphans, issued, consumed, nonce, ops, items>>

---------------------------------------------------------------------------
(* Bounds of the model *)

\* requests started in one behaviour
MaxOps == 3
\* pages the provider serves to one item fetch
MaxPages == 3
\* contacts on one served page
MaxPageSize == 2

(* Program constants *)

\* notion.py:27 and notion.py:64, expire=600
NOTION_TTL == 600
\* hubspot.py:50, tokens.get('expires_in', 3600)
DEFAULT_EXPIRES_IN == 3600
\* hubspot.py:152, params = {"limit": 100}
PAGE_LIMIT == 100

---------------------------------------------------------------------------
(* Strings *)

\* Python's None in a string-typed slot
None == <<"None">>

\* str(x) inside an f-string
Str(x) == IF x = None THEN <<"N", "o", "n", "e">> ELSE x

Digit == <<"0", "1", "2", "3", "4", "5", "6", "7", "8", "9">>

IsDigit(c) == \E d \in 1..10 : Digit[d] = c

DigitVal(c) == (CHOOSE d \in 1..10 : Digit[d] = c) - 1

RECURSIVE IntToStr(_)
\* str(n) for n >= 0
IntToStr(n) == IF n < 10 THEN <<Digit[n + 1]>>
               ELSE IntToStr(n \div 10) \o <<Digit[(n % 10) + 1]>>

RECURSIVE SplitFrom(_, _, _, _)
\* s.split(sep): i is the scan position, cur the part being collected
SplitFrom(s, sep, i, cur) ==
    IF i > Len(s) THEN <<cur>>
    ELSE IF s[i] = sep THEN <<cur>> \o SplitFrom(s, sep, i + 1, <<>>)
    ELSE SplitFrom(s, sep, i + 1, Append(cur, s[i]))

Split(s, sep) == SplitFrom(s, sep, 1, <<>>)

---------------------------------------------------------------------------
(* json.dumps / json.loads on flat dicts.  A dict is a function from key   *)
(* names to values; a value is a string or, for the keys of IntKeys, a     *)
(* natural number.                                                         *)

EmptyDict == <<>>

KeyOrder == <<"state", "user_id", "org_id", "access_token", "refresh_token",
              "expires_in", "token_type", "error">>

IntKeys == {"expires_in"}

KeyText(k) ==
    CASE k = "state" -> <<"s", "t", "a", "t", "e">>
      [] k = "user_id" -> <<"u", "s", "e", "r", "_", "i", "d">>
      [] k = "org_id" -> <<"o", "r", "g", "_", "i", "d">>
      [] k = "access_token" -> <<"a", "c", "c", "e", "s", "s", "_", "t", "o", "k", "e", "n">>
      [] k = "refresh_token" -> <<"r", "e", "f", "r", "e", "s", "h", "_", "t", "o", "k", "e", "n">>
      [] k = "expires_in" -> <<"e", "x", "p", "i", "r", "e", "s", "_", "i", "n">>
      [] k = "token_type" -> <<"t", "o", "k", "e", "n", "_", "t", "y", "p", "e">>
      [] k = "error" -> <<"e", "r", "r", "o", "r">>

RECURSIVE JsonEscape(_)
JsonEscape(s) ==
    IF s = <<>> THEN <<>>
    ELSE (IF Head(s) = "\"" THEN <<"\\", "\"">>
          ELSE IF Head(s) = "\\" THEN <<"\\", "\\">>
          ELSE <<Head(s)>>) \o JsonEscape(Tail(s))

JsonString(s) == <<"\"">> \o JsonEscape(s) \o <<"\"">>

JsonValue(k, v) == IF k \in IntKeys THEN IntToStr(v) ELSE JsonString(v)

RECURSIVE JsonMembers(_, _, _)
\* the members of d in key order, from position i of KeyOrder
JsonMembers(d, i, first) ==
    IF i > Len(KeyOrder) THEN <<>>
    ELSE IF KeyOrder[i] \notin DOMAIN d THEN JsonMembers(d, i + 1, first)
    ELSE (IF first THEN <<>> ELSE <<",", " ">>)
         \o JsonString(KeyText(KeyOrder[i])) \o <<":", " ">>
         \o JsonValue(KeyOrder[i], d[KeyOrder[i]])
         \o JsonMembers(d, i + 1, FALSE)

\* json.dumps(d)
JsonDumps(d) == <<"{">> \o JsonMembers(d, 1, TRUE) \o <<"}">>

JsonFail == [ok |-> FALSE, val |-> <<>>, next |-> 0]

RECURSIVE SkipSpace(_, _)
SkipSpace(t, i) == IF i <= Len(t) /\ t[i] = " " THEN SkipSpace(t, i + 1) ELSE i

RECURSIVE ParseString(_, _, _)
\* the string whose opening quote is just before position i
ParseString(t, i, acc) ==
    IF i > Len(t) THEN JsonFail
    ELSE IF t[i] = "\"" THEN [ok |-> TRUE, val |-> acc, next |-> i + 1]
    ELSE IF t[i] = "\\"
         THEN (IF i + 1 > Len(t) THEN JsonFail
               ELSE ParseString(t, i + 2, Append(acc, t[i + 1])))
    ELSE ParseString(t, i + 1, Append(acc, t[i]))

RECURSIVE ParseNumber(_, _, _, _)
ParseNumber(t, i, acc, seen) ==
    IF i <= Len(t) /\ IsDigit(t[i])
    THEN ParseNumber(t, i + 1, 10 * acc + DigitVal(t[i]), TRUE)
    ELSE IF seen THEN [ok |-> TRUE, val |-> acc, next |-> i] ELSE JsonFail

ParseValue(t, i) ==
    IF i > Len(t) THEN JsonFail
    ELSE IF t[i] = "\"" THEN ParseString(t, i + 1, <<>>)
    ELSE ParseNumber(t, i, 0, FALSE)

KeyOfText(s) == IF \E k \in DOMAIN KeyOrder : KeyText(KeyOrder[k]) = s
                THEN KeyOrder[CHOOSE k \in DOMAIN KeyOrder : KeyText(KeyOrder[k]) = s]
                ELSE "?"

DictPut(d, k, v) == [x \in (DOMAIN d) \cup {k} |-> IF x = k THEN v ELSE d[x]]

RECURSIVE ParseMembers(_, _, _)
\* the members of an object from position i on, up to its closing brace
ParseMembers(t, i, acc) ==
    LET a == SkipSpace(t, i) IN
    IF a > Len(t) \/ t[a] # "\"" THEN JsonFail
    ELSE LET key == ParseString(t, a + 1, <<>>) IN
         IF ~key.ok THEN JsonFail
         ELSE LET b == SkipSpace(t, key.next) IN
              IF b > Len(t) \/ t[b] # ":" THEN JsonFail
              ELSE LET val == ParseValue(t, SkipSpace(t, b + 1)) IN
                   IF ~val.ok THEN JsonFail
                   ELSE LET c == SkipSpace(t, val.next)
                            d == DictPut(acc, KeyOfText(key.val), val.val)
                        IN  IF c > Len(t) THEN JsonFail
                            ELSE IF t[c] = "," THEN ParseMembers(t, c + 1, d)
                            ELSE IF t[c] = "}" /\ SkipSpace(t, c + 1) > Len(t)
                                 THEN [ok |-> TRUE, val |-> d, next |-> c + 1]
                            ELSE JsonFail

\* json.loads(t): kind "dict" with the dict, kind "scalar" for a JSON text
\* that is not an object, kind "error" for JSONDecodeError (or a TypeError
\* when t is None)
JsonLoads(t) ==
    IF t = None THEN [kind |-> "error", val |-> EmptyDict]
    ELSE LET a == SkipSpace(t, 1) IN
         IF a > Len(t) THEN [kind |-> "error", val |-> EmptyDict]
         ELSE IF t[a] = "{"
              THEN (IF SkipSpace(t, a + 1) <= Len(t) /\ t[SkipSpace(t, a + 1)] = "}"
                       /\ SkipSpace(t, SkipSpace(t, a + 1) + 1) > Len(t)
                    THEN [kind |-> "dict", val |-> EmptyDict]
                    ELSE LET m == ParseMembers(t, a + 1, EmptyDict) IN
                         IF m.ok THEN [kind |-> "dict", val |-> m.val]
                         ELSE [kind |-> "error", val |-> EmptyDict])
         ELSE LET v == ParseValue(t, a) IN
              IF v.ok /\ SkipSpace(t, v.next) > Len(t)
              THEN [kind |-> "scalar", val |-> EmptyDict]
              ELSE [kind |-> "error", val |-> EmptyDict]

\* d.get(k): None when the key is absent
Get(d, k) == IF k \in DOMAIN d THEN d[k] ELSE None

---------------------------------------------------------------------------
(* URLs and query strings.  A URL is a sequence whose literal parts (host, *)
(* parameter names, client id, ...) are single tokens and whose state      *)
(* value is spelled out character by character.                            *)

\* urllib.parse.quote_plus on one character
QuoteChar(c) ==
    CASE c = ":" -> <<"%", "3", "A">>
      [] c = " " -> <<"+">>
      [] c = "\"" -> <<"%", "2", "2">>
      [] c = "{" -> <<"%", "7", "B">>
      [] c = "}" -> <<"%", "7", "D">>
      [] c = "," -> <<"%", "2", "C">>
      [] c = "%" -> <<"%", "2", "5">>
      [] c = "&" -> <<"%", "2", "6">>
      [] c = "=" -> <<"%", "3", "D">>
      [] c = "+" -> <<"%", "2", "B">>
      [] OTHER -> <<c>>

RECURSIVE QuotePlus(_)
QuotePlus(s) == IF s = <<>> THEN <<>> ELSE QuoteChar(Head(s)) \o QuotePlus(Tail(s))

Escaped == {":", " ", "\"", "{", "}", ",", "%", "&", "=", "+"}

RECURSIVE UnquotePlus(_)
\* the query-string decoding done for request.query_params
UnquotePlus(s) ==
    IF s = <<>> THEN <<>>
    ELSE IF Head(s) = "+" THEN <<" ">> \o UnquotePlus(Tail(s))
    ELSE IF Head(s) = "%" /\ Len(s) >= 3
            /\ \E c \in Escaped : QuoteChar(c) = SubSeq(s, 1, 3)
         THEN <<CHOOSE c \in Escaped : QuoteChar(c) = SubSeq(s, 1, 3)>>
              \o UnquotePlus(SubSeq(s, 4, Len(s)))
    ELSE <<Head(s)>> \o UnquotePlus(Tail(s))

RECURSIVE TakeValue(_, _)
\* the raw value of a query parameter: up to the next "&"
TakeValue(url, i) ==
    IF i > Len(url) \/ url[i] = "&" THEN <<>>
    ELSE <<url[i]>> \o TakeValue(url, i + 1)

\* request.query_params.get('state') of the callback the provider redirects
\* to after the user followed url; None when url carries no state
StateOfUrl(url) ==
    IF \E i \in 1..(Len(url) - 1) : url[i] = "state" /\ url[i + 1] = "="
    THEN UnquotePlus(TakeValue(url,
            (CHOOSE i \in 1..(Len(url) - 1) : url[i] = "state" /\ url[i + 1] = "=") + 2))
    ELSE None

---------------------------------------------------------------------------
(* Users, organisations and the provider's answers *)

\* the (user, org) pairs requests are made for: two plain pairs and two
\* pairs whose ids contain the delimiter ':'
Pairs == { [user |-> <<"u">>, org |-> <<"o">>],
           [user |-> <<"v">>, org |-> <<"o">>],
           [user |-> <<"u", ":", "u">>, org |-> <<"o">>],
           [user |-> <<"u">>, org |-> <<"o", ":", "u">>] }

NoPair == [user |-> None, org |-> None]

\* concurrent request slots
Procs == {"p1", "p2"}

Tok(n) == <<"t">> \o IntToStr(n)

\* successful token responses of the provider
TokenResponses ==
    { [access_token |-> Tok(1), refresh_token |-> <<"r">>, expires_in |-> 1800],
      [access_token |-> Tok(2), refresh_token |-> <<"r">>, expires_in |-> 1800],
      [access_token |-> Tok(3)] }

\* what a POST to the token endpoint can come back with: a success body, an
\* error status, or no response at all (connection error, timeout)
HttpOutcomes ==
    { [kind |-> "ok", status |-> 200, body |-> b] : b \in TokenResponses }
    \cup { [kind |-> "status", status |-> s, body |-> [error |-> <<"e">>]] : s \in {400, 401} }
    \cup { [kind |-> "neterr", status |-> 0, body |-> EmptyDict] }

\* error / error_description query parameters of a callback
ErrorParams == { [error |-> None, error_description |-> None],
                 [error |-> <<"d">>, error_description |-> <<"x">>] }

---------------------------------------------------------------------------
(* The key-value store (redis_client) *)

\* add_key_value_redis(key, value, expire); owner is history: the pair the
\* writing request acted for
KvPut(store, key, val, ttl, owner) ==
    [k \in (DOMAIN store) \cup {key} |->
        IF k = key THEN [val |-> val, ttl |-> ttl, owner |-> owner] ELSE store[k]]

\* get_value_redis(key)
KvGet(store, key) == IF key \in DOMAIN store THEN store[key].val ELSE None

\* delete_key_redis(key): no effect when the key is absent
KvDel(store, key) == [k \in (DOMAIN store) \ {key} |-> store[k]]

\* f'{prefix}:{org_id}:{user_id}'
Key(prefix, org, user) == <<prefix, ":">> \o Str(org) \o <<":">> \o Str(user)

---------------------------------------------------------------------------
(* Requests *)

\* a free request slot; the fields after ret are history, kept for the
\* properties: they are written, never read, by the handlers
NoOutcome == [kind |-> "none", status |-> 0, body |-> EmptyDict]

Idle == [pc |-> "idle", op |-> "none", error |-> None, error_description |-> None,
         state |-> None,
         user |-> None, org |-> None, tokens |-> EmptyDict,
         status |-> 0, detail |-> <<>>, ret |-> EmptyDict, url |-> <<>>,
         origin |-> NoPair, had_state |-> FALSE, replay |-> FALSE, found |-> FALSE,
         read |-> EmptyDict, outcome |-> NoOutcome, del_done |-> FALSE,
         posts |-> 0, written |-> <<>>, deleted |-> <<>>, stored |-> None,
         touched |-> {}]

\* history of one write: the key, the value and the expiry it was made with
Write(key, store) == [key |-> key, val |-> store[key].val, ttl |-> store[key].ttl]

\* the request ends with this status and detail
Finish(pr, status, detail) == [pr EXCEPT !.pc = "done", !.status = status, !.detail = detail]

\* an exception nothing catches: FastAPI answers 500
Unhandled(pr) == Finish(pr, 500, <<"Internal Server Error">>)

\* Python truthiness of an optional string
Truthy(x) == x # None /\ x # <<>>

\* a new request takes the first free slot
CanStart(p) ==
    /\ procs[p].pc = "idle"
    /\ ops < MaxOps
    /\ p = "p2" => procs["p1"].pc # "idle"

\* history: the owners of the record an access to key finds there
Touch(store, key) == IF key \in DOMAIN store THEN {store[key].owner} ELSE {}

\* the status an httpx.HTTPError is reported with:
\* response.status_code if hasattr(e, 'response') else 500
http_error_status(o) == IF o.kind = "status" THEN o.status ELSE 500

---------------------------------------------------------------------------
(* hubspot.py *)

\* f"{user_id}:{org_id}"
hubspot_state(user, org) == Str(user) \o <<":">> \o Str(org)

\* the authorization URL: HUBSPOT_AUTH_URL?urlencode(query_params)
authorize_hubspot(user, org) ==
    <<"https://app.hubspot.com/oauth/authorize", "?",
      "client_id", "=", "HUBSPOT_CLIENT_ID", "&",
      "redirect_uri", "=", "HUBSPOT_REDIRECT_URI", "&",
      "scope", "=", "HUBSPOT_SCOPES", "&",
      "state", "=">> \o QuotePlus(hubspot_state(user, org))

\* user_id, org_id = state.split(':'); not ok when state is None or does
\* not split into exactly two parts
hubspot_split_state(state) ==
    IF state = None THEN [ok |-> FALSE, user |-> None, org |-> None]
    ELSE LET parts == Split(state, ":") IN
         IF Len(parts) = 2 THEN [ok |-> TRUE, user |-> parts[1], org |-> parts[2]]
         ELSE [ok |-> FALSE, user |-> None, org |-> None]

hubspot_credentials_key(user, org) == Key("hubspot_credentials", org, user)

\* tokens.get('expires_in', 3600)
hubspot_expire(tokens) ==
    IF "expires_in" \in DOMAIN tokens THEN tokens["expires_in"] ELSE DEFAULT_EXPIRES_IN

\* a save that keeps the record that is already there
save_if_absent(store, user, org, tokens) ==
    IF hubspot_credentials_key(user, org) \in DOMAIN store THEN store
    ELSE KvPut(store, hubspot_credentials_key(user, org), JsonDumps(tokens),
               hubspot_expire(tokens), [user |-> user, org |-> org])

save_hubspot_credentials(store, user, org, tokens) ==
    KvPut(store, hubspot_credentials_key(user, org), JsonDumps(tokens),
          hubspot_expire(tokens), [user |-> user, org |-> org])

\* the credentials dict, or EmptyDict for None (absent, or not JSON)
fetch_credentials_from_db(store, user, org) ==
    LET credentials == KvGet(store, hubspot_credentials_key(user, org)) IN
    IF Truthy(credentials) /\ JsonLoads(credentials).kind = "dict"
    THEN JsonLoads(credentials).val
    ELSE EmptyDict

\* a retrieval that returns the credentials it read instead of the refreshed
\* ones
stale_credentials(credentials, new_tokens) == credentials

\* what get_hubspot_credentials returns after a refresh: return new_tokens
refreshed_credentials(credentials, new_tokens) == new_tokens

\* a retrieval that re-raises every refresh failure as it is
refresh_failure_reraised(pr, status) == Finish(pr, status, <<"Error refreshing token">>)

\* what get_hubspot_credentials raises for a failed refresh
refresh_failure(pr, status) ==
    IF status = 401
    THEN Finish(pr, 401, <<"HubSpot authorization expired. Please reconnect.">>)
    ELSE Finish(pr, status, <<"Error refreshing token">>)

\* authorize_hubspot: no await, no store access
AuthorizeHubspot(p) ==
    /\ CanStart(p)
    /\ \E pair \in Pairs :
         LET url == authorize_hubspot(pair.user, pair.org) IN
         /\ procs' = [procs EXCEPT ![p] =
                [Finish(Idle, 200, <<>>) EXCEPT !.op = "authorize_hubspot",
                    !.user = pair.user, !.org = pair.org, !.url = url]]
         /\ consumed' = consumed \ {StateOfUrl(url)}
    /\ ops' = ops + 1
    /\ UNCHANGED <<kv, orphans, issued, nonce, items>>

\* oauth2callback_hubspot up to the token request
CallbackHubspot(p) ==
    /\ CanStart(p)
    /\ \E ep \in ErrorParams, src \in Pairs \cup {NoPair} :
         LET state == IF src = NoPair THEN None
                      ELSE StateOfUrl(authorize_hubspot(src.user, src.org))
             split == hubspot_split_state(state)
             req == [Idle EXCEPT !.op = "oauth2callback_hubspot", !.error = ep.error,
                        !.error_description = ep.error_description,
                        !.state = state, !.origin = src, !.replay = (state \in consumed),
                        !.had_state =
                            (split.ok /\ KvGet(kv, Key("hubspot_state", split.org, split.user)) = state)]
         IN  procs' = [procs EXCEPT ![p] =
                IF Truthy(ep.error) THEN Finish(req, 400, ep.error_description)
                ELSE IF ~split.ok THEN Unhandled(req)
                ELSE [req EXCEPT !.pc = "exchange", !.user = split.user,
                         !.org = split.org, !.posts = 1]]
    /\ ops' = ops + 1
    /\ UNCHANGED <<kv, orphans, issued, consumed, nonce, items>>

\* the token endpoint answers the code exchange
CallbackHubspotResponse(p) ==
    /\ procs[p].pc = "exchange"
    /\ procs[p].op = "oauth2callback_hubspot"
    /\ \E o \in HttpOutcomes :
         LET got == [procs[p] EXCEPT !.outcome = o] IN
         IF o.kind = "ok"
         THEN /\ procs' = [procs EXCEPT ![p] = [got EXCEPT !.pc = "save", !.tokens = o.body]]
              /\ UNCHANGED consumed
         ELSE /\ procs' = [procs EXCEPT ![p] =
                    Finish(got, http_error_status(o), <<"Error in OAuth callback">>)]
              /\ consumed' = consumed \cup {procs[p].state}
    /\ UNCHANGED <<kv, orphans, issued, nonce, ops, items>>

\* save_hubspot_credentials, then the close-window page
CallbackHubspotSave(p) ==
    /\ procs[p].pc = "save"
    /\ procs[p].op = "oauth2callback_hubspot"
    /\ kv' = save_hubspot_credentials(kv, procs[p].user, procs[p].org, procs[p].tokens)
    /\ procs' = [procs EXCEPT ![p] =
            [Finish(procs[p], 200, <<"window.close()">>) EXCEPT
                !.written = Append(@, Write(hubspot_credentials_key(procs[p].user, procs[p].org), kv')),
                !.stored = KvGet(kv', hubspot_credentials_key(procs[p].user, procs[p].org)),
                !.touched = @ \cup Touch(kv, hubspot_credentials_key(procs[p].user, procs[p].org))]]
    /\ consumed' = consumed \cup {procs[p].state}
    /\ UNCHANGED <<orphans, issued, nonce, ops, items>>

\* get_hubspot_credentials up to the refresh request (or to its end)
GetHubspot(p) ==
    /\ CanStart(p)
    /\ \E pair \in Pairs :
         LET credentials == fetch_credentials_from_db(kv, pair.user, pair.org)
             req == [Idle EXCEPT !.op = "get_hubspot_credentials", !.user = pair.user,
                        !.org = pair.org, !.found = (credentials # EmptyDict),
                        !.read = credentials,
                        !.touched = Touch(kv, hubspot_credentials_key(pair.user, pair.org))]
         IN  procs' = [procs EXCEPT ![p] =
                IF credentials = EmptyDict
                THEN Finish(req, 404, <<"No HubSpot credentials found">>)
                ELSE IF Truthy(Get(credentials, "refresh_token"))
                THEN [req EXCEPT !.pc = "refresh", !.posts = 1]
                ELSE [Finish(req, 200, <<>>) EXCEPT !.ret = credentials,
                        !.stored = KvGet(kv, hubspot_credentials_key(pair.user, pair.org))]]
    /\ ops' = ops + 1
    /\ UNCHANGED <<kv, orphans, issued, consumed, nonce, items>>

\* refresh_hubspot_token: the token endpoint answers the refresh
GetHubspotResponse(p) ==
    /\ procs[p].pc = "refresh"
    /\ \E o \in HttpOutcomes :
         LET got == [procs[p] EXCEPT !.outcome = o] IN
         procs' = [procs EXCEPT ![p] =
            IF o.kind = "ok" THEN [got EXCEPT !.pc = "save", !.tokens = o.body]
            ELSE refresh_failure(got, http_error_status(o))]
    /\ UNCHANGED <<kv, orphans, issued, consumed, nonce, ops, items>>

\* save_hubspot_credentials(user_id, org_id, new_tokens); return new_tokens
GetHubspotSave(p) ==
    /\ procs[p].pc = "save"
    /\ procs[p].op = "get_hubspot_credentials"
    /\ kv' = save_hubspot_credentials(kv, procs[p].user, procs[p].org, procs[p].tokens)
    /\ procs' = [procs EXCEPT ![p] =
            [Finish(procs[p], 200, <<>>) EXCEPT
                !.ret = refreshed_credentials(procs[p].read, procs[p].tokens),
                !.written = Append(@, Write(hubspot_credentials_key(procs[p].user, procs[p].org), kv')),
                !.stored = KvGet(kv', hubspot_credentials_key(procs[p].user, procs[p].org)),
                !.touched = @ \cup Touch(kv, hubspot_credentials_key(procs[p].user, procs[p].org))]]
    /\ UNCHANGED <<orphans, issued, consumed, nonce, ops, items>>

---------------------------------------------------------------------------
(* notion.py *)

\* authorization_url, then f'&state={encoded_state}'
notion_url(encoded_state) ==
    <<"https://api.notion.com/v1/oauth/authorize", "?",
      "client_id", "=", "CLIENT_ID", "&",
      "response_type", "=", "code", "&",
      "owner", "=", "user", "&",
      "redirect_uri", "=", "REDIRECT_URI", "&",
      "state", "=">> \o encoded_state

\* json.dumps(state_data) of authorize_notion; token is secrets.token_urlsafe(32)
notion_encoded_state(token, user, org) ==
    JsonDumps([state |-> token, user_id |-> user, org_id |-> org])

notion_state_key(user, org) == Key("notion_state", org, user)

notion_credentials_key(user, org) == Key("notion_credentials", org, user)

\* a validation that only asks whether some state is saved for the pair
notion_state_missing(saved_state, original_state) == ~Truthy(saved_state)

\* not saved_state or original_state != json.loads(saved_state).get('state')
notion_state_mismatch(saved_state, original_state) ==
    \/ ~Truthy(saved_state)
    \/ original_state # Get(JsonLoads(saved_state).val, "state")

\* state parameters nobody was given by authorize_notion: none at all, text
\* that is not JSON, JSON that is no object, an object without ids, and a
\* guessed token for a pair
ForgedStates ==
    { None, <<"x">>, <<"1">>, JsonDumps([state |-> Tok(0)]),
      notion_encoded_state(Tok(0), <<"u">>, <<"o">>) }

\* authorize_notion
AuthorizeNotion(p) ==
    /\ CanStart(p)
    /\ \E pair \in Pairs :
         LET encoded_state == notion_encoded_state(Tok(nonce + 1), pair.user, pair.org)
             key == notion_state_key(pair.user, pair.org)
             url == notion_url(encoded_state)
         IN  /\ kv' = KvPut(kv, key, encoded_state, NOTION_TTL, pair)
             /\ procs' = [procs EXCEPT ![p] =
                    [Finish(Idle, 200, <<>>) EXCEPT !.op = "authorize_notion",
                        !.user = pair.user, !.org = pair.org, !.url = url,
                        !.written = <<Write(key, kv')>>, !.touched = Touch(kv, key)]]
             /\ issued' = issued \cup {[url |-> url, pair |-> pair]}
             /\ consumed' = consumed \ {StateOfUrl(url)}
    /\ nonce' = nonce + 1
    /\ ops' = ops + 1
    /\ UNCHANGED <<orphans, items>>

\* oauth2callback_notion up to asyncio.gather
CallbackNotion(p) ==
    /\ CanStart(p)
    /\ \E ep \in ErrorParams,
          src \in issued \cup { [url |-> notion_url(f), pair |-> NoPair] : f \in ForgedStates \ {None} }
                        \cup { [url |-> <<>>, pair |-> NoPair] } :
         LET encoded_state == StateOfUrl(src.url)
             state_data == JsonLoads(encoded_state)
             original_state == Get(state_data.val, "state")
             user == Get(state_data.val, "user_id")
             org == Get(state_data.val, "org_id")
             saved_state == KvGet(kv, notion_state_key(user, org))
             req == [Idle EXCEPT !.op = "oauth2callback_notion", !.error = ep.error,
                        !.error_description = ep.error_description,
                        !.state = encoded_state, !.origin = src.pair,
                        !.replay = (encoded_state \in consumed)]
             decoded == [req EXCEPT !.user = user, !.org = org,
                            !.had_state = (saved_state = encoded_state),
                            !.touched = Touch(kv, notion_state_key(user, org))]
         IN  procs' = [procs EXCEPT ![p] =
                IF Truthy(ep.error) THEN Finish(req, 400, ep.error)
                ELSE IF state_data.kind # "dict" THEN Unhandled(req)
                ELSE IF notion_state_mismatch(saved_state, original_state)
                     THEN Finish(decoded, 400, <<"State does not match.">>)
                ELSE [decoded EXCEPT !.pc = "gather", !.posts = 1]]
    /\ ops' = ops + 1
    /\ UNCHANGED <<kv, orphans, issued, consumed, nonce, items>>

\* a gather that returns as soon as the token request has been answered
gather_first(responded, del_done) == responded

\* await asyncio.gather(client.post(...), delete_key_redis(...)) returns when
\* both have completed
gather_done(responded, del_done) == responded /\ del_done

\* the token endpoint answers inside asyncio.gather.  A response of any
\* status is kept (there is no raise_for_status); a failed request makes
\* gather raise at once, and a deletion that has not run yet is left running
CallbackNotionResponse(p) ==
    /\ procs[p].pc = "gather"
    /\ procs[p].outcome.kind = "none"
    /\ \E o \in HttpOutcomes :
         LET got == [procs[p] EXCEPT !.outcome = o, !.tokens = o.body] IN
         IF o.kind = "neterr"
         THEN /\ procs' = [procs EXCEPT ![p] = Unhandled(got)]
              /\ orphans' = IF procs[p].del_done THEN orphans
                            ELSE Append(orphans, [key |-> notion_state_key(procs[p].user, procs[p].org),
                                                  by |-> [user |-> procs[p].user, org |-> procs[p].org]])
              /\ consumed' = consumed \cup {procs[p].state}
         ELSE /\ procs' = [procs EXCEPT ![p] =
                    [got EXCEPT !.pc = IF gather_done(TRUE, procs[p].del_done)
                                        THEN "save" ELSE "gather"]]
              /\ UNCHANGED <<orphans, consumed>>
    /\ UNCHANGED <<kv, issued, nonce, ops, items>>

\* delete_key_redis of the state record inside asyncio.gather
CallbackNotionDelete(p) ==
    /\ procs[p].pc = "gather"
    /\ ~procs[p].del_done
    /\ LET key == notion_state_key(procs[p].user, procs[p].org) IN
       /\ kv' = KvDel(kv, key)
       /\ procs' = [procs EXCEPT ![p] =
              [@ EXCEPT !.del_done = TRUE, !.deleted = Append(@, key),
                  !.touched = @ \cup Touch(kv, key),
                  !.pc = IF gather_done(procs[p].outcome.kind # "none", TRUE)
                         THEN "save" ELSE "gather"]]
    /\ UNCHANGED <<orphans, issued, consumed, nonce, ops, items>>

\* a deletion left running by a failed gather completes
OrphanDelete ==
    /\ orphans # <<>>
    /\ \E i \in DOMAIN orphans :
         /\ kv' = KvDel(kv, orphans[i].key)
         /\ orphans' = [j \in 1..(Len(orphans) - 1) |->
                            IF j < i THEN orphans[j] ELSE orphans[j + 1]]
    /\ UNCHANGED <<procs, issued, consumed, nonce, ops, items>>

\* add_key_value_redis of json.dumps(response.json()), then the close-window page
CallbackNotionSave(p) ==
    /\ procs[p].pc = "save"
    /\ procs[p].op = "oauth2callback_notion"
    /\ LET key == notion_credentials_key(procs[p].user, procs[p].org) IN
       /\ kv' = KvPut(kv, key, JsonDumps(procs[p].tokens), NOTION_TTL,
                      [user |-> procs[p].user, org |-> procs[p].org])
       /\ procs' = [procs EXCEPT ![p] =
              [Finish(procs[p], 200, <<"window.close()">>) EXCEPT
                  !.written = Append(@, Write(key, kv')),
                  !.stored = KvGet(kv', key),
                  !.touched = @ \cup Touch(kv, key)]]
    /\ consumed' = consumed \cup {procs[p].state}
    /\ UNCHANGED <<orphans, issued, nonce, ops, items>>

\* get_notion_credentials up to the deletion
GetNotion(p) ==
    /\ CanStart(p)
    /\ \E pair \in Pairs :
         LET key == notion_credentials_key(pair.user, pair.org)
             credentials == KvGet(kv, key)
             loaded == JsonLoads(credentials).val
             req == [Idle EXCEPT !.op = "get_notion_credentials", !.user = pair.user,
                        !.org = pair.org, !.touched = Touch(kv, key)]
         IN  procs' = [procs EXCEPT ![p] =
                IF ~Truthy(credentials) \/ loaded = EmptyDict
                THEN Finish(req, 400, <<"No credentials found.">>)
                ELSE [req EXCEPT !.pc = "delete", !.found = TRUE, !.read = loaded]]
    /\ ops' = ops + 1
    /\ UNCHANGED <<kv, orphans, issued, consumed, nonce, items>>

\* a retrieval that leaves the credentials where they are
notion_keep_credentials(store, user, org) == store

\* await delete_key_redis(f'notion_credentials:{org_id}:{user_id}')
notion_drop_credentials(store, user, org) == KvDel(store, notion_credentials_key(user, org))

\* delete_key_redis of the credentials; return credentials
GetNotionDelete(p) ==
    /\ procs[p].pc = "delete"
    /\ LET key == notion_credentials_key(procs[p].user, procs[p].org) IN
       /\ kv' = notion_drop_credentials(kv, procs[p].user, procs[p].org)
       /\ procs' = [procs EXCEPT ![p] =
              [Finish(procs[p], 200, <<>>) EXCEPT !.ret = procs[p].read,
                  !.deleted = Append(@, key), !.touched = @ \cup Touch(kv, key),
                  !.stored = KvGet(kv', key)]]
    /\ UNCHANGED <<orphans, issued, consumed, nonce, ops, items>>

---------------------------------------------------------------------------
(* hubspot.py: get_items_hubspot *)

RECURSIVE LStrip(_)
LStrip(s) == IF s # <<>> /\ Head(s) = " " THEN LStrip(Tail(s)) ELSE s

RECURSIVE RStrip(_)
RStrip(s) == IF s # <<>> /\ s[Len(s)] = " " THEN RStrip(SubSeq(s, 1, Len(s) - 1)) ELSE s

\* str.strip()
Strip(s) == RStrip(LStrip(s))

\* the contact with id n as the provider returns it
Contact(n) == [id |-> IntToStr(n),
               properties |-> [firstname |-> IF n % 2 = 1 THEN <<"f">> ELSE <<>>,
                               lastname |-> IF n % 3 = 0 THEN <<>> ELSE <<"l">>]]

\* create_integration_item_metadata_object(contact)
create_integration_item_metadata_object(contact) ==
    [id |-> contact.id,
     name |-> Strip(contact.properties.firstname \o <<" ">> \o contact.properties.lastname),
     type |-> "contact",
     directory |-> FALSE,
     url |-> <<"https://app.hubspot.com/contacts/">> \o contact.id,
     visibility |-> TRUE]

RECURSIVE MapItems(_)
\* [await create_integration_item_metadata_object(contact) for contact in all_contacts]
MapItems(contacts) ==
    IF contacts = <<>> THEN <<>>
    ELSE <<create_integration_item_metadata_object(Head(contacts))>> \o MapItems(Tail(contacts))

\* a fetch that keeps only the page it has just received
replace_contacts(all_contacts, contacts) == contacts

\* all_contacts.extend(contacts)
extend_contacts(all_contacts, contacts) == all_contacts \o contacts

\* params = {"limit": 100}; if after: params["after"] = after
items_params(after) ==
    IF Truthy(after) THEN [limit |-> PAGE_LIMIT, after |-> after]
    ELSE [limit |-> PAGE_LIMIT, after |-> None]

\* a loop that ends only when the response carries no cursor at all
has_cursor(after) == after # None

\* if not after: break
more_pages(after) == Truthy(after)

NoItems == [pc |-> "idle", after |-> None, all_contacts |-> <<>>, requests |-> <<>>,
            pages |-> <<>>, result |-> <<>>, status |-> 0, failure |-> NoOutcome]

\* the contacts first .. first + n - 1
ContactsFrom(first, n) == [i \in 1..n |-> Contact(first + i - 1)]

\* the pages the provider can answer request number k with: any number of
\* new contacts up to MaxPageSize, followed by a cursor, by an empty cursor
\* or by none; the page that reaches MaxPages ends the chain
PagesFor(k, first) ==
    { [results |-> ContactsFrom(first, n), next |-> c] :
        n \in 0..MaxPageSize,
        c \in IF k < MaxPages THEN {None, <<>>, <<"c">> \o IntToStr(k)} ELSE {None, <<>>} }

\* get_items_hubspot up to its first request
ItemsStart ==
    /\ items.pc = "idle"
    /\ items' = [NoItems EXCEPT !.pc = "request", !.requests = <<items_params(None)>>]
    /\ UNCHANGED <<kv, procs, orphans, issued, consumed, nonce, ops>>

\* a page arrives: accumulate it, then follow its cursor or map and return
ItemsPage ==
    /\ items.pc = "request"
    /\ \E page \in PagesFor(Len(items.pages) + 1, Len(items.all_contacts) + 1) :
         LET all_contacts == extend_contacts(items.all_contacts, page.results)
             after == page.next
             got == [items EXCEPT !.all_contacts = all_contacts, !.after = after,
                        !.pages = Append(@, page)]
         IN  items' = IF more_pages(after)
                      THEN [got EXCEPT !.requests = Append(@, items_params(after))]
                      ELSE [got EXCEPT !.pc = "done", !.status = 200,
                               !.result = MapItems(all_contacts)]
    /\ UNCHANGED <<kv, procs, orphans, issued, consumed, nonce, ops>>

\* a fetch that answers a failed page with the contacts gathered so far
items_partial(it, o) ==
    [it EXCEPT !.pc = "done", !.status = 200, !.failure = o,
        !.result = MapItems(it.all_contacts)]

\* except httpx.HTTPError: the call ends with the upstream status and returns
\* nothing; the status is getattr(e.response, 'status_code', 500), and 500 as
\* well when reading e.response itself raises
items_abort(it, o) ==
    [it EXCEPT !.pc = "done", !.status = http_error_status(o), !.failure = o]

\* the request fails: raise_for_status, or no response at all
ItemsFailure ==
    /\ items.pc = "request"
    /\ \E o \in { [kind |-> "status", status |-> s, body |-> EmptyDict] : s \in {401, 429} }
                \cup { [kind |-> "neterr", status |-> 0, body |-> EmptyDict] } :
         items' = items_abort(items, o)
    /\ UNCHANGED <<kv, procs, orphans, issued, consumed, nonce, ops>>

---------------------------------------------------------------------------
(* The environment *)

\* a key's time to live runs out
Expire ==
    /\ \E k \in DOMAIN kv : kv' = KvDel(kv, k)
    /\ UNCHANGED <<procs, orphans, issued, consumed, nonce, ops, items>>

\* the response has been sent: the slot is free again
Respond(p) ==
    /\ procs[p].pc = "done"
    /\ procs' = [procs EXCEPT ![p] = Idle]
    /\ UNCHANGED <<kv, orphans, issued, consumed, nonce, ops, items>>

Init ==
    /\ kv = <<>>
    /\ procs = [p \in Procs |-> Idle]
    /\ orphans = <<>>
    /\ issued = {}
    /\ consumed = {}
    /\ nonce = 0
    /\ ops = 0
    /\ items = NoItems

NextHubspot ==
    \/ \E p \in Procs : AuthorizeHubspot(p)
    \/ \E p \in Procs : CallbackHubspot(p)
    \/ \E p \in Procs : CallbackHubspotResponse(p)
    \/ \E p \in Procs : CallbackHubspotSave(p)
    \/ \E p \in Procs : GetHubspot(p)
    \/ \E p \in Procs : GetHubspotResponse(p)
    \/ \E p \in Procs : GetHubspotSave(p)
    \/ \E p \in Procs : Respond(p)
    \/ Expire

SpecHubspot == Init /\ [][NextHubspot]_vars

NextNotion ==
    \/ \E p \in Procs : AuthorizeNotion(p)
    \/ \E p \in Procs : CallbackNotion(p)
    \/ \E p \in Procs : CallbackNotionResponse(p)
    \/ \E p \in Procs : CallbackNotionDelete(p)
    \/ \E p \in Procs : CallbackNotionSave(p)
    \/ \E p \in Procs : GetNotion(p)
    \/ \E p \in Procs : GetNotionDelete(p)
    \/ \E p \in Procs : Respond(p)
    \/ OrphanDelete
    \/ Expire

SpecNotion == Init /\ [][NextNotion]_vars

\* The event loop runs every task it was given: a deletion that was issued,
\* inside a gather or left behind by one, is carried out.
FairNotion ==
    /\ WF_vars(OrphanDelete)
    /\ \A p \in Procs : WF_vars(CallbackNotionDelete(p))

SpecNotionFair == SpecNotion /\ FairNotion

NextItems ==
    \/ ItemsStart
    \/ ItemsPage
    \/ ItemsFailure

SpecItems == Init /\ [][NextItems]_vars

\* Every request is answered or fails: client.get has timeout=30.0
FairItems == WF_vars(ItemsPage \/ ItemsFailure)

SpecItemsFair == SpecItems /\ FairItems

\* The whole program.  The three parts share no state: the two providers
\* use disjoint key prefixes and the item fetch does not touch the store, so
\* each property is checked under the specification of the part it is about.
Next == NextHubspot \/ NextNotion \/ NextItems

Spec == Init /\ [][Next]_vars

---------------------------------------------------------------------------
(* Properties *)

CallbackOps == {"oauth2callback_hubspot", "oauth2callback_notion"}

AuthorizeOps == {"authorize_hubspot", "authorize_notion"}

GetOps == {"get_hubspot_credentials", "get_notion_credentials"}

\* the prefix of the key a provider's state record is kept under
StatePrefix(op) == IF op \in {"authorize_notion", "oauth2callback_notion"}
                   THEN "notion_state" ELSE "hubspot_state"

ReconnectDetail == <<"HubSpot authorization expired. Please reconnect.">>

\* C1 (as claimed): a callback without error parameter whose state names a
\* pair for which the store holds no matching state record issues no token
\* request, writes nothing and, once it has ended, was answered 400.
C1_MismatchRejected ==
    \A p \in Procs :
        LET r == procs[p] IN
        (r.op \in CallbackOps /\ ~Truthy(r.error) /\ r.user # None /\ ~r.had_state)
            => /\ r.posts = 0
               /\ r.written = <<>>
               /\ r.pc = "done" => r.status = 400

\* C2 (as claimed): a callback carrying a state that an earlier, completed
\* callback was accepted with, no authorize for it in between, issues no
\* token request and is answered 400.
C2_ConsumedStateRejected ==
    \A p \in Procs :
        LET r == procs[p] IN
        (r.op \in CallbackOps /\ r.replay)
            => /\ r.posts = 0
               /\ r.pc = "done" => r.status = 400

\* C3 (as claimed): a callback (without error parameter) that carries the
\* state of the URL authorize returned for (user, org) decodes it to exactly
\* that user and that org.
C3_StateRoundTrip ==
    \A p \in Procs :
        LET r == procs[p] IN
        (r.op \in CallbackOps /\ ~Truthy(r.error) /\ r.origin # NoPair)
            => r.user = r.origin.user /\ r.org = r.origin.org

\* C4 (as claimed): a completed authorize made exactly one write, of a state
\* record under the pair's state key with an expiry of at most 600 s, and
\* deleted nothing.
C4_AuthorizeStoresState ==
    \A p \in Procs :
        LET r == procs[p] IN
        (r.op \in AuthorizeOps /\ r.pc = "done")
            => /\ Len(r.written) = 1
               /\ r.written[1].key = Key(StatePrefix(r.op), r.org, r.user)
               /\ r.written[1].ttl <= 600
               /\ r.deleted = <<>>

\* C5 (as claimed): every record a request reads, overwrites or deletes was
\* written for the request's own (org, user) pair.
C5_NoCrossTenantAccess ==
    \A p \in Procs :
        \A owner \in procs[p].touched :
            owner = [user |-> procs[p].user, org |-> procs[p].org]

\* C6 (as claimed): a callback whose token request was refused or failed
\* writes no credentials and, once it has ended, was answered with an error
\* status.
C6_FailedExchangeStoresNothing ==
    \A p \in Procs :
        LET r == procs[p] IN
        (r.op \in CallbackOps /\ r.outcome.kind \in {"status", "neterr"})
            => /\ r.written = <<>>
               /\ r.pc = "done" => r.status >= 400

\* C7 (as claimed): a credential retrieval that found no credentials has
\* ended with status 404 and wrote and deleted nothing.
C7_MissingCredentials404 ==
    \A p \in Procs :
        LET r == procs[p] IN
        (r.op \in GetOps /\ ~r.found)
            => /\ r.pc = "done"
               /\ r.status = 404
               /\ r.written = <<>>
               /\ r.deleted = <<>>

\* C8: get_hubspot_credentials that found credentials with a refresh token
\* has issued exactly one refresh request, and when it ended with success it
\* returned the refresh response, which is what the store held under the
\* pair's key at that moment; credentials without a refresh token are
\* returned as read, with no request and no write.
C8_RefreshOnRetrieval ==
    \A p \in Procs :
        LET r == procs[p] IN
        (r.op = "get_hubspot_credentials" /\ r.found)
            => IF Truthy(Get(r.read, "refresh_token"))
               THEN /\ r.posts = 1
                    /\ (r.pc = "done" /\ r.status = 200)
                         => /\ r.outcome.kind = "ok"
                            /\ r.ret = r.outcome.body
                            /\ JsonLoads(r.stored) = [kind |-> "dict", val |-> r.ret]
               ELSE /\ r.pc = "done"
                    /\ r.status = 200
                    /\ r.posts = 0
                    /\ r.written = <<>>
                    /\ r.ret = r.read

\* C8's case: a retrieval has refreshed and returned
C8_Witness ==
    \E p \in Procs :
        /\ procs[p].op = "get_hubspot_credentials"
        /\ procs[p].pc = "done"
        /\ procs[p].status = 200
        /\ procs[p].outcome.kind = "ok"
        /\ procs[p].ret # procs[p].read

\* C9: when the refresh request of get_hubspot_credentials fails, the call
\* has ended without writing to the store; an upstream 401 is answered 401
\* with the reconnect message, any other upstream status with that status
\* and without the reconnect message.
C9_RefreshFailure ==
    \A p \in Procs :
        LET r == procs[p] IN
        (r.op = "get_hubspot_credentials" /\ r.outcome.kind \in {"status", "neterr"})
            => /\ r.pc = "done"
               /\ r.written = <<>>
               /\ r.deleted = <<>>
               /\ (r.outcome.kind = "status" /\ r.outcome.status = 401)
                    => (r.status = 401 /\ r.detail = ReconnectDetail)
               /\ (r.outcome.kind = "status" /\ r.outcome.status # 401)
                    => (r.status = r.outcome.status /\ r.detail # ReconnectDetail)

\* C9's case: a refresh was refused with 401
C9_Witness ==
    \E p \in Procs :
        /\ procs[p].op = "get_hubspot_credentials"
        /\ procs[p].outcome.kind = "status"
        /\ procs[p].outcome.status = 401
        /\ procs[p].pc = "done"

RECURSIVE ConcatResults(_)
\* the contacts of a sequence of pages, in page order
ConcatResults(pages) ==
    IF pages = <<>> THEN <<>> ELSE Head(pages).results \o ConcatResults(Tail(pages))

RECURSIVE SumSizes(_)
SumSizes(pages) ==
    IF pages = <<>> THEN 0 ELSE Len(Head(pages).results) + SumSizes(Tail(pages))

\* C10: when get_items_hubspot returns, it has made one request per served
\* page, the first without cursor and request k+1 with the cursor of page k;
\* every page but the last carried a cursor and the last carried none; the
\* result is the mapped contacts of all pages concatenated in page order, as
\* many as the page sizes add up to.
C10_FollowsCursorChain ==
    (items.pc = "done" /\ items.status = 200)
        => /\ Len(items.requests) = Len(items.pages)
           /\ items.requests[1] = [limit |-> PAGE_LIMIT, after |-> None]
           /\ \A k \in 1..(Len(items.pages) - 1) :
                /\ Truthy(items.pages[k].next)
                /\ items.requests[k + 1] = [limit |-> PAGE_LIMIT, after |-> items.pages[k].next]
           /\ ~Truthy(items.pages[Len(items.pages)].next)
           /\ items.result = MapItems(ConcatResults(items.pages))
           /\ Len(items.result) = SumSizes(items.pages)

\* C10's case: three pages of 2, 2 and 1 contacts were fetched
C10_Witness ==
    /\ items.pc = "done"
    /\ items.status = 200
    /\ Len(items.pages) = 3
    /\ Len(items.pages[1].results) = 2
    /\ Len(items.pages[2].results) = 2
    /\ Len(items.pages[3].results) = 1
    /\ Len(items.result) = 5

\* C11: when a page request of get_items_hubspot fails, on whichever page,
\* the call has ended with the upstream status (500 when the failure carries
\* none), it returns no item, whatever the earlier pages held, and the failed
\* request is the last one it made.
C11_FailureAbortsFetch ==
    items.failure.kind # "none"
        => /\ items.pc = "done"
           /\ items.status = IF items.failure.kind = "status"
                              THEN items.failure.status ELSE 500
           /\ items.status >= 400
           /\ items.result = <<>>
           /\ Len(items.requests) = Len(items.pages) + 1

\* C11's case: the third request failed after two pages with contacts
C11_Witness ==
    /\ items.failure.kind = "status"
    /\ Len(items.pages) = 2
    /\ Len(items.pages[1].results) = 2
    /\ Len(items.pages[2].results) = 1
    /\ items.pc = "done"

\* C12 (as claimed): a callback that carries an error parameter has ended
\* with status 400 and the provider's error description as detail, and it
\* made no token request and no read, write or delete of the store.
C12_ErrorParameterFails ==
    \A p \in Procs :
        LET r == procs[p] IN
        (r.op \in CallbackOps /\ Truthy(r.error))
            => /\ r.pc = "done"
               /\ r.status = 400
               /\ r.detail = r.error_description
               /\ r.posts = 0
               /\ r.touched = {}
               /\ r.written = <<>>
               /\ r.deleted = <<>>

\* C13 (as claimed): a callback without error parameter whose state is
\* absent, or does not decode, or does not resolve to a user id and an org
\* id, makes no token request and no write and, once it has ended, was
\* answered 400.
C13_MalformedStateRejected ==
    \A p \in Procs :
        LET r == procs[p] IN
        (r.op \in CallbackOps /\ ~Truthy(r.error)
            /\ (r.state = None \/ r.user = None \/ r.org = None))
            => /\ r.posts = 0
               /\ r.written = <<>>
               /\ r.pc = "done" => r.status = 400

\* C14 (as claimed): every credentials record written for a token response
\* that states its lifetime is written with that expires_in as its expiry,
\* by a callback and by a refreshing retrieval alike.
C14_TtlIsTokenLifetime ==
    \A p \in Procs :
        LET r == procs[p] IN
        (r.op \in CallbackOps \cup {"get_hubspot_credentials"}
            /\ "expires_in" \in DOMAIN r.tokens)
            => \A i \in DOMAIN r.written : r.written[i].ttl = r.tokens["expires_in"]

\* C15 (as claimed): of two oauth2callback_notion requests in progress
\* together that carry the same state, at most one has passed the state
\* validation and issued a token request.
C15_StateUsedOnce ==
    \A p, q \in Procs :
        (p # q /\ procs[p].op = "oauth2callback_notion"
            /\ procs[q].op = "oauth2callback_notion"
            /\ procs[p].state = procs[q].state)
            => procs[p].posts + procs[q].posts <= 1

\* C16: whatever else is in progress, the save step of a refreshing
\* get_hubspot_credentials ends the call with status 200 and its own refresh
\* response, and leaves exactly that complete response in the store under
\* the pair's key; a record changes only by such a save (or a callback's),
\* and no step of any call removes one: a record goes only by expiry.  So
\* after two concurrent retrievals the record is the response of the one
\* that saved last.
C16_LastWriteWins ==
    [][ /\ \A p \in Procs :
            (procs[p].op = "get_hubspot_credentials" /\ procs[p].pc = "save"
                /\ procs'[p].pc = "done")
                => /\ procs'[p].status = 200
                   /\ procs'[p].ret = procs[p].outcome.body
                   /\ JsonLoads(KvGet(kv', hubspot_credentials_key(procs[p].user, procs[p].org)))
                        = [kind |-> "dict", val |-> procs[p].outcome.body]
        /\ \A key \in DOMAIN kv :
            \/ key \in DOMAIN kv' /\ kv'[key] = kv[key]
            \/ key \notin DOMAIN kv' /\ procs' = procs
            \/ \E p \in Procs :
                /\ procs[p].pc = "save"
                /\ procs'[p].pc = "done"
                /\ key = hubspot_credentials_key(procs[p].user, procs[p].org)
                /\ key \in DOMAIN kv'
      ]_vars

\* C16's case: two retrievals for one pair read the same credentials, were
\* refreshed with different responses and both returned; the store holds
\* what one of them saved, which is not what the other saved
C16_Witness ==
    \E p, q \in Procs :
        /\ p # q
        /\ procs[p].op = "get_hubspot_credentials"
        /\ procs[q].op = "get_hubspot_credentials"
        /\ procs[p].user = procs[q].user /\ procs[p].org = procs[q].org
        /\ procs[p].pc = "done" /\ procs[p].status = 200
        /\ procs[q].pc = "done" /\ procs[q].status = 200
        /\ procs[p].read = procs[q].read
        /\ procs[p].ret # procs[q].ret
        /\ procs[p].ret # procs[p].read
        /\ procs[q].ret # procs[q].read
        /\ KvGet(kv, hubspot_credentials_key(procs[q].user, procs[q].org)) = procs[q].stored
        /\ procs[p].stored # procs[q].stored

\* the state deletions that were issued and have not run yet
PendingDeletes ==
    Len(orphans) + Cardinality({p \in Procs : procs[p].pc = "gather" /\ ~procs[p].del_done})

\* C17: a callback that passed validation issues the token request and the
\* deletion of its state record together (either may complete first); it
\* reaches the credentials write only when the token request was answered
\* and the deletion has run, the deletion being of the pair's state key; it
\* ends without the deletion having run only when the token request raised;
\* and every deletion issued is carried out, also the one a failed gather
\* leaves behind.
C17_ExchangeAndDeletion ==
    /\ [](\A p \in Procs :
            LET r == procs[p] IN
            (r.op = "oauth2callback_notion" /\ r.posts = 1)
                => /\ (r.pc = "save" \/ r.written # <<>>)
                        => (r.del_done /\ r.outcome.kind \in {"ok", "status"})
                   /\ r.pc = "done" => (r.del_done \/ r.outcome.kind = "neterr")
                   /\ r.del_done => r.deleted = <<notion_state_key(r.user, r.org)>>
                   /\ ~r.del_done => r.deleted = <<>>)
    /\ (PendingDeletes > 0) ~> (PendingDeletes = 0)

\* C17's case: the token request of a callback that had passed validation
\* raised before the deletion ran, and the deletion left behind has run
C17_Witness ==
    \E p \in Procs :
        /\ procs[p].op = "oauth2callback_notion"
        /\ procs[p].had_state
        /\ procs[p].outcome.kind = "neterr"
        /\ ~procs[p].del_done
        /\ orphans = <<>>
        /\ procs[p].touched # {}
        /\ notion_state_key(procs[p].user, procs[p].org) \notin DOMAIN kv

NotFoundDetail == <<"No credentials found.">>

IssuedState(n, pair) == notion_encoded_state(Tok(n), pair.user, pair.org)

\* the pair the n-th authorize_notion was for (none when there was no n-th)
Authorized(n) == { s.pair : s \in { i \in issued : StateOfUrl(i.url) = IssuedState(n, i.pair) } }

\* a later authorize_notion than the n-th has written under key
Superseded(n, key) ==
    \E m \in (n + 1)..nonce :
        \E pair \in Authorized(m) : notion_state_key(pair.user, pair.org) = key

\* C19: authorize_notion leaves the state it issued, and nothing else, under
\* the pair's state key, replacing what was there; a callback passes the
\* validation only with the state of the most recent authorize for its
\* pair's key, and a callback that carries the state of an authorize that a
\* later one for the same key has replaced is rejected with 400 before any
\* token request.
C19_LatestStateOnly ==
    [][ \A p \in Procs :
          LET r == procs'[p]
              key == notion_state_key(r.user, r.org)
          IN  /\ (procs[p].pc = "idle" /\ r.op = "authorize_notion")
                    => /\ KvGet(kv', key) = StateOfUrl(r.url)
                       /\ \A k \in DOMAIN kv : k # key => (k \in DOMAIN kv' /\ kv'[k] = kv[k])
                       /\ DOMAIN kv' = DOMAIN kv \cup {key}
              /\ (procs[p].pc = "idle" /\ r.op = "oauth2callback_notion" /\ ~Truthy(r.error))
                    => /\ r.posts = 1
                            => \E n \in 1..nonce :
                                /\ [user |-> r.user, org |-> r.org] \in Authorized(n)
                                /\ r.state = IssuedState(n, [user |-> r.user, org |-> r.org])
                                /\ ~Superseded(n, key)
                       /\ \A n \in 1..nonce :
                            (r.origin \in Authorized(n) /\ r.state = IssuedState(n, r.origin)
                                /\ Superseded(n, notion_state_key(r.origin.user, r.origin.org)))
                                => /\ r.pc = "done"
                                   /\ r.status = 400
                                   /\ r.posts = 0
      ]_vars

\* C19's case: after two authorize_notion for one pair, a callback with the
\* first one's state was rejected while the second one's state is stored
C19_Witness ==
    \E p \in Procs :
        LET r == procs[p] IN
        /\ r.op = "oauth2callback_notion"
        /\ ~Truthy(r.error)
        /\ r.origin # NoPair
        /\ r.state = IssuedState(1, r.origin)
        /\ KvGet(kv, notion_state_key(r.user, r.org)) = IssuedState(2, r.origin)
        /\ r.pc = "done"
        /\ r.status = 400
        /\ r.posts = 0

\* C20: with a cursor chain that ends (here after MaxPages pages at most)
\* get_items_hubspot, once it has made a request, comes to its end.  Each
\* response with a non-empty cursor is followed by exactly one more request,
\* for that cursor, and the loop has not returned; the first response whose
\* cursor is absent or empty ends the loop with no further request; and after
\* the end no request is made.
C20_LoopTermination ==
    /\ [][ /\ Len(items'.pages) = Len(items.pages) + 1
               => LET page == items'.pages[Len(items'.pages)] IN
                  IF page.next # None /\ page.next # <<>>
                  THEN /\ items'.pc = "request"
                       /\ items'.requests = Append(items.requests,
                                                    [limit |-> PAGE_LIMIT, after |-> page.next])
                  ELSE /\ items'.pc = "done"
                       /\ items'.status = 200
                       /\ items'.requests = items.requests
           /\ items.pc = "done" => items' = items
          ]_vars
    /\ (items.pc = "request") ~> (items.pc = "done")

\* C20's case: the second response carried an empty cursor and the loop
\* ended there, below the longest chain
C20_Witness ==
    /\ items.pc = "done"
    /\ items.status = 200
    /\ Len(items.pages) = 2
    /\ Len(items.pages) < MaxPages
    /\ items.pages[1].next = <<"c", "1">>
    /\ items.pages[2].next = <<>>
    /\ Len(items.requests) = 2

====
